---- MODULE Spec2Model ----
(***************************************************************************)
(* RescueLink: the WebSocket relay server (startServer) that keeps the     *)
(* in-memory store of active alerts, history, active users and mode flags  *)
(* and fans every change out to the open connections.                      *)
(*                                                                         *)
(* JavaScript values are modelled as follows: an object is a function      *)
(* from its keys (strings) to values, so that an absent key is a key not   *)
(* in DOMAIN; `undefined` and `null` are the strings Undefined and Null;   *)
(* Date.now() is the integer clock `now`, and the strings made from it     *)
(* (Date.now().toString(), new Date().toISOString()) are made by           *)
(* DateNowString and ToISOString.  A handler reads the clock once.         *)
(*                                                                         *)
(* Two things in the model are not in the program and are there only so    *)
(* that properties can be stated: the key "serial" of an alert, which      *)
(* numbers the NEW_ALERT that created it and is copied with the alert, so  *)
(* that one alert can be followed even when two alerts share an id; and    *)
(* the variables created, sent, first, lastMsg and handled, which record   *)
(* what the handlers have done, with budget, which ends the run.  The key  *)
(* "localId" of a frame in an outbox is of the same kind: it names the     *)
(* local copy the sending client made, and the server never reads it.      *)
(*                                                                         *)
(* The browser client (App) is modelled per connection by ui, the alerts   *)
(* and history it holds, and outbox, the frames it has sent that the       *)
(* server has not handled yet; faulty is the set of connections on which   *)
(* send() throws, and stalled the set of connections whose client has      *)
(* stopped reading its socket.                                             *)
(***************************************************************************)
EXTENDS Integers, Sequences, FiniteSets, TLC

\* ---------------------------------------------------------------- bounds
MaxConn == 2
MaxTime == 2
MaxMsgs == 3
MaxLifecycleMsgs == 4
MaxClientMsgs == 3
MaxFailMsgs == 2
MaxMalformedMsgs == 2
MaxOutbox == 2
MaxLocationMsgs == 3
MaxUnhandledMsgs == 3
MaxSlowMsgs == 3

Conn == 1..MaxConn

\* ------------------------------------------------------- JavaScript values
Undefined == "<undefined>"
Null == "<null>"

\* o.k : the value of a property, undefined when the object has no such key
Get(o, k) == IF k \in DOMAIN o THEN o[k] ELSE Undefined

\* { ...a, ...b }
Spread(a, b) ==
  [k \in (DOMAIN a) \cup (DOMAIN b) |-> IF k \in DOMAIN b THEN b[k] ELSE a[k]]

\* v || d on the values a payload field can hold
OrElse(v, d) == IF v \in {Undefined, Null, ""} THEN d ELSE v

\* Date.now().toString()
DateNowString(t) == ToString(t)

\* new Date().toISOString()
ToISOString(t) == "T" \o ToString(t)

\* keys whose values are not strings (booleans, arrays); they are never undefined
NonStringKeys ==
  {"accepted", "resolved", "active", "showHeatmap", "showReroutes",
   "showAmbulance", "accidentLocation", "serial"}

\* JSON.stringify then JSON.parse of a flat object: keys holding undefined vanish
JsonObj(o) ==
  [k \in {j \in DOMAIN o : (j \notin NonStringKeys) => (o[j] # Undefined)} |-> o[k]]

\* the same for an array of flat objects
JsonSeq(s) == [i \in DOMAIN s |-> JsonObj(s[i])]

\* the same for a Record<string, flat object>
JsonMap(m) == [k \in DOMAIN m |-> JsonObj(m[k])]

\* the property key a value is converted to in activeUsers[userId]
ToKey(v) == IF v = Undefined THEN "undefined" ELSE IF v = Null THEN "null" ELSE v

\* ------------------------------------------------------------------ state
VARIABLES
  alerts,            \* let alerts: any[]
  history,           \* let history: any[]
  activeUsers,       \* let activeUsers: Record<string, {...}>
  disasterMode,      \* let disasterMode
  trafficSimulation, \* let trafficSimulation
  readyState,        \* readyState of each connection ("NONE" before it exists)
  sent,              \* per connection: the frames the last step sent to it
  first,             \* per connection: the first frame ever sent to it, summarised
  created,           \* the ids NEW_ALERT has assigned, in order of creation
  now,               \* the clock, in milliseconds
  lastMsg,           \* the inbound frame handled last, the connection it came from,
                     \* and whether its handling threw
  handled,           \* number of inbound frames handled so far
  budget,            \* number of inbound frames the run handles at most
  ui,                \* per connection: the alerts and history state of its client
  outbox,            \* per connection: frames its client has sent, not yet handled
  faulty,            \* connections whose send() throws
  stalled            \* connections whose client no longer reads what is sent to it

store == <<alerts, history, activeUsers, disasterMode, trafficSimulation>>
vars == <<alerts, history, activeUsers, disasterMode, trafficSimulation,
          readyState, sent, first, created, now, lastMsg, handled, budget,
          ui, outbox, faulty, stalled>>

\* wss.clients: a socket is in the set from the upgrade until its close event
Clients == {c \in Conn : readyState[c] \in {"OPEN", "CLOSING"}}

InitDisasterMode == [active |-> FALSE, type |-> Null, timestamp |-> Null]

InitTrafficSimulation ==
  [active |-> FALSE, showHeatmap |-> TRUE, showReroutes |-> TRUE,
   showAmbulance |-> TRUE, accidentLocation |-> <<129750, 775900>>]

\* ------------------------------------------------------ the client (App)
\* useState<Alert[]>([]) for alerts and for history
NoUi == [alerts |-> <<>>, history |-> <<>>]

\* prev.map(a => a.userId === userId ? { ...a, location, fullAddress } : a)
UiPatchLocation(as, p) ==
  [i \in DOMAIN as |->
     IF as[i].userId = Get(p, "userId")
     THEN Spread(as[i], [location |-> Get(p, "location"),
                         fullAddress |-> Get(p, "fullAddress")])
     ELSE as[i]]

\* socket.onmessage: the alerts and history of the client after frame m.  In
\* ALERT_UPDATED the updater reads message.payload.id once per alert held: with no
\* payload it throws as soon as there is an alert, and the update is lost.
OnMessage(u, m) ==
  CASE m.type = "INIT_DATA" ->
         [alerts |-> m.payload.alerts, history |-> m.payload.history]
    [] m.type = "ALERT_CREATED" ->
         [alerts |-> <<m.payload>> \o u.alerts, history |-> u.history]
    [] m.type = "ALERT_UPDATED" ->
         IF "payload" \in DOMAIN m
         THEN [alerts |-> [i \in DOMAIN u.alerts |->
                             IF u.alerts[i].id = m.payload.id
                             THEN m.payload ELSE u.alerts[i]],
               history |-> u.history]
         ELSE u
    [] m.type = "ALERT_RESOLVED" ->
         [alerts |-> SelectSeq(u.alerts, LAMBDA a : a.id # m.payload.alertId),
          history |-> <<m.payload.resolvedAlert>> \o u.history]
    [] m.type = "USER_LOCATION_UPDATED" ->
         [alerts |-> UiPatchLocation(u.alerts, m.payload), history |-> u.history]
    [] OTHER -> u

\* the clients after the frames of this step have reached them; the frame sent to
\* a client that does not read stays in the buffers of the transport
Deliver ==
  ui' = [c \in Conn |->
           IF sent'[c] = <<>> \/ c \in stalled
           THEN ui[c] ELSE OnMessage(ui[c], sent'[c][1])]

\* the state after startServer() has run, before any connection
Started ==
  /\ alerts = <<>>
  /\ history = <<>>
  /\ activeUsers = <<>>
  /\ disasterMode = InitDisasterMode
  /\ trafficSimulation = InitTrafficSimulation
  /\ readyState = [c \in Conn |-> "NONE"]
  /\ sent = [c \in Conn |-> <<>>]
  /\ first = [c \in Conn |-> [type |-> "NONE", serials |-> {}]]
  /\ created = <<>>
  /\ now = 1
  /\ lastMsg = [from |-> 0, msg |-> [type |-> "NONE"], threw |-> FALSE]
  /\ handled = 0
  /\ ui = [c \in Conn |-> NoUi]
  /\ outbox = [c \in Conn |-> <<>>]
  /\ faulty = {}
  /\ stalled = {}

Init == Started /\ budget = MaxMsgs

\* ---------------------------------------------------------------- fan-out
\* wss.clients.forEach(client => { if (client.readyState === OPEN) client.send(data) })
\* what is kept of a frame: its type and, of an INIT_DATA, the alerts it carries
Summary(m) ==
  [type |-> m.type,
   serials |-> IF m.type = "INIT_DATA"
               THEN {m.payload.alerts[i].serial : i \in DOMAIN m.payload.alerts}
                      \cup {m.payload.history[i].serial : i \in DOMAIN m.payload.history}
               ELSE {}]

\* mutant of Broadcast: the loop stops after the first open client
BroadcastOne(m) ==
  LET open == {c \in Clients : readyState[c] = "OPEN"} IN
  /\ sent' = [c \in Conn |->
               IF c \in open /\ (\A d \in open : c <= d) THEN <<m>> ELSE <<>>]
  /\ first' = [c \in Conn |->
                IF sent'[c] # <<>> /\ first[c].type = "NONE"
                THEN Summary(m) ELSE first[c]]
  /\ Deliver

\* client.send(broadcastData) throws on this connection
SendFails(c) == c \in faulty

\* some send of the loop throws: forEach stops there and the handler's catch runs
SendThrows == \E c \in Clients : readyState[c] = "OPEN" /\ SendFails(c)

\* mutant of Broadcast: the loop does not test readyState
BroadcastUnchecked(m) ==
  /\ sent' = [c \in Conn |-> IF c \in Clients THEN <<m>> ELSE <<>>]
  /\ first' = [c \in Conn |->
                IF sent'[c] # <<>> /\ first[c].type = "NONE"
                THEN Summary(m) ELSE first[c]]
  /\ Deliver

\* mutant of Broadcast: each send is awaited until its client has read the frame,
\* so the loop never gets past a client that does not read
BroadcastAwaited(m) ==
  /\ sent' = [c \in Conn |->
               IF /\ c \in Clients
                  /\ readyState[c] = "OPEN"
                  /\ \A d \in Clients : (d <= c /\ readyState[d] = "OPEN") => ~SendFails(d)
                  /\ \A d \in Clients : (d < c /\ readyState[d] = "OPEN") => d \notin stalled
               THEN <<m>> ELSE <<>>]
  /\ first' = [c \in Conn |->
                IF sent'[c] # <<>> /\ first[c].type = "NONE"
                THEN Summary(m) ELSE first[c]]
  /\ Deliver

\* the loop visits wss.clients in the order the connections were made; send()
\* queues the frame and returns, whether or not the client reads
Broadcast(m) ==
  /\ sent' = [c \in Conn |->
               IF /\ c \in Clients
                  /\ readyState[c] = "OPEN"
                  /\ \A d \in Clients : (d <= c /\ readyState[d] = "OPEN") => ~SendFails(d)
               THEN <<m>> ELSE <<>>]
  /\ first' = [c \in Conn |->
                IF sent'[c] # <<>> /\ first[c].type = "NONE"
                THEN Summary(m) ELSE first[c]]
  /\ Deliver

\* a step that sends nothing
NoSend ==
  /\ sent' = [c \in Conn |-> <<>>]
  /\ UNCHANGED <<first, ui>>

\* mutant of InitData: the snapshot leaves the history out
InitDataNoHistory ==
  [type |-> "INIT_DATA",
   payload |-> [alerts |-> JsonSeq(alerts), history |-> <<>>,
                activeUsers |-> JsonMap(activeUsers),
                disasterMode |-> JsonObj(disasterMode),
                trafficSimulation |-> trafficSimulation]]

\* the INIT_DATA frame
InitData ==
  [type |-> "INIT_DATA",
   payload |-> [alerts |-> JsonSeq(alerts), history |-> JsonSeq(history),
                activeUsers |-> JsonMap(activeUsers),
                disasterMode |-> JsonObj(disasterMode),
                trafficSimulation |-> trafficSimulation]]

\* mutant of Connection: the socket is registered but no snapshot is sent to it
ConnectionNoSnapshot(c) ==
  /\ readyState[c] = "NONE"
  /\ \A d \in Conn : d < c => readyState[d] # "NONE"
  /\ readyState' = [readyState EXCEPT ![c] = "OPEN"]
  /\ NoSend
  /\ UNCHANGED <<store, created, now, lastMsg, handled, budget, outbox, faulty, stalled>>

\* wss.on("connection", ws => { ws.send(INIT_DATA); ... }); connections are
\* interchangeable, so they are numbered in the order they arrive
Connection(c) ==
  /\ readyState[c] = "NONE"
  /\ \A d \in Conn : d < c => readyState[d] # "NONE"
  /\ readyState' = [readyState EXCEPT ![c] = "OPEN"]
  /\ sent' = [d \in Conn |-> IF d = c THEN <<InitData>> ELSE <<>>]
  /\ first' = [first EXCEPT ![c] = IF @.type = "NONE" THEN Summary(InitData) ELSE @]
  /\ Deliver
  /\ UNCHANGED <<store, created, now, lastMsg, handled, budget, outbox, faulty, stalled>>

\* the close handshake has started, or the transport broke: the socket is still in
\* wss.clients and its readyState is no longer OPEN.  The client closes its socket
\* when App unmounts (return () => socket.close()), so its state goes with it, and
\* what it had sent and the server had not read is not handled.
Closing(c) ==
  /\ readyState[c] = "OPEN"
  /\ readyState' = [readyState EXCEPT ![c] = "CLOSING"]
  /\ sent' = [d \in Conn |-> <<>>]
  /\ ui' = [ui EXCEPT ![c] = NoUi]
  /\ outbox' = [outbox EXCEPT ![c] = <<>>]
  /\ stalled' = stalled \ {c}
  /\ UNCHANGED <<store, first, created, now, lastMsg, handled, budget, faulty>>

\* mutant of Close: when the last client has left, the disaster flags are reset
CloseResetsFlags(c) ==
  /\ readyState[c] = "CLOSING"
  /\ readyState' = [readyState EXCEPT ![c] = "CLOSED"]
  /\ NoSend
  /\ disasterMode' = IF Clients = {c} THEN InitDisasterMode ELSE disasterMode
  /\ UNCHANGED <<alerts, history, activeUsers, trafficSimulation>>
  /\ UNCHANGED <<created, now, lastMsg, handled, budget, outbox, faulty, stalled>>

\* ws.on("close", () => console.log("Client disconnected")): the socket has left
\* wss.clients
Close(c) ==
  /\ readyState[c] = "CLOSING"
  /\ readyState' = [readyState EXCEPT ![c] = "CLOSED"]
  /\ NoSend
  /\ UNCHANGED <<store, created, now, lastMsg, handled, budget, outbox, faulty, stalled>>

\* a millisecond passes
Tick ==
  /\ now < MaxTime
  /\ now' = now + 1
  /\ NoSend
  /\ UNCHANGED <<store, created, readyState, lastMsg, handled, budget, outbox, faulty, stalled>>

\* ------------------------------------------------- ws.on("message") handler
\* a frame is dispatched to the handler of a connection that is open
CanHandle(c) == readyState[c] = "OPEN" /\ handled < budget

\* message.payload.x throws a TypeError when the message has no payload
HasPayload(msg) == "payload" \in DOMAIN msg

\* bookkeeping common to every handled frame
Handled(c, msg, threw) ==
  /\ lastMsg' = [from |-> c, msg |-> msg, threw |-> threw]
  /\ handled' = handled + 1
  /\ created' = IF msg.type = "NEW_ALERT" /\ Len(alerts') > Len(alerts)
                THEN Append(created, alerts'[Len(alerts')].id) ELSE created
  /\ outbox' = [outbox EXCEPT ![c] = IF @ # <<>> /\ @[1] = msg THEN Tail(@) ELSE @]
  /\ UNCHANGED <<readyState, now, budget, faulty, stalled>>

\* catch (err) { console.error(...) } reached before any assignment
Caught == NoSend /\ UNCHANGED store

\* mutant of NewAlertObj: the flag accepted is taken from the payload when it has one
NewAlertObjTrusting(p, t, n) ==
  [serial |-> n,
   id |-> DateNowString(t),
   timestamp |-> ToISOString(t),
   status |-> OrElse(Get(p, "urgency"), "Critical"),
   location |-> OrElse(Get(p, "location"), "Unknown Location"),
   fullAddress |-> OrElse(Get(p, "fullAddress"), Null),
   userId |-> OrElse(Get(p, "userId"), "Anonymous"),
   transcript |-> OrElse(Get(p, "transcript"), ""),
   aiReasoning |-> OrElse(Get(p, "aiReasoning"), ""),
   accepted |-> IF "accepted" \in DOMAIN p THEN p.accepted ELSE FALSE,
   videoData |-> OrElse(Get(p, "videoData"), Null),
   videoAnalysis |-> OrElse(Get(p, "videoAnalysis"), Null)]

\* const newAlert = { id: Date.now().toString(), ... }, the n-th alert created
NewAlertObj(p, t, n) ==
  [serial |-> n,
   id |-> DateNowString(t),
   timestamp |-> ToISOString(t),
   status |-> OrElse(Get(p, "urgency"), "Critical"),
   location |-> OrElse(Get(p, "location"), "Unknown Location"),
   fullAddress |-> OrElse(Get(p, "fullAddress"), Null),
   userId |-> OrElse(Get(p, "userId"), "Anonymous"),
   transcript |-> OrElse(Get(p, "transcript"), ""),
   aiReasoning |-> OrElse(Get(p, "aiReasoning"), ""),
   accepted |-> FALSE,
   videoData |-> OrElse(Get(p, "videoData"), Null),
   videoAnalysis |-> OrElse(Get(p, "videoAnalysis"), Null)]

\* if (message.type === "NEW_ALERT") { ... }
NewAlert(c, msg) ==
  /\ CanHandle(c)
  /\ msg.type = "NEW_ALERT"
  /\ IF ~HasPayload(msg) THEN Caught
     ELSE LET newAlert == NewAlertObj(msg.payload, now, Len(created) + 1) IN
          /\ alerts' = Append(alerts, newAlert)
          /\ Broadcast([type |-> "ALERT_CREATED", payload |-> JsonObj(newAlert)])
          /\ UNCHANGED <<history, activeUsers, disasterMode, trafficSimulation>>
  /\ Handled(c, msg, ~HasPayload(msg) \/ SendThrows)

\* mutant of FindIndex: a miss gives the last index instead of -1
FindIndexOrLast(as, alertId) ==
  IF \E i \in DOMAIN as : as[i].id = alertId
  THEN CHOOSE i \in DOMAIN as :
         as[i].id = alertId /\ \A j \in DOMAIN as : as[j].id = alertId => i <= j
  ELSE IF Len(as) > 0 THEN Len(as) ELSE -1

\* alerts.findIndex(a => a.id === alertId), counting from 1; -1 when there is none
FindIndex(as, alertId) ==
  IF \E i \in DOMAIN as : as[i].id = alertId
  THEN CHOOSE i \in DOMAIN as :
         as[i].id = alertId /\ \A j \in DOMAIN as : as[j].id = alertId => i <= j
  ELSE -1

\* mutant of AcceptMap: accepting toggles the flag
AcceptToggle(as, alertId, t) ==
  [i \in DOMAIN as |->
     IF as[i].id = alertId
     THEN Spread(as[i], [accepted |-> ~as[i].accepted, acceptedAt |-> ToISOString(t)])
     ELSE as[i]]

\* alerts.map(a => a.id === alertId ? { ...a, accepted: true, acceptedAt } : a)
AcceptMap(as, alertId, t) ==
  [i \in DOMAIN as |->
     IF as[i].id = alertId
     THEN Spread(as[i], [accepted |-> TRUE, acceptedAt |-> ToISOString(t)])
     ELSE as[i]]

\* { type: "ALERT_UPDATED", payload: alerts.find(a => a.id === alertId) } as sent:
\* find gives undefined when there is none, and JSON.stringify drops that key
AlertUpdated(as, alertId) ==
  IF FindIndex(as, alertId) = -1
  THEN [type |-> "ALERT_UPDATED"]
  ELSE [type |-> "ALERT_UPDATED", payload |-> JsonObj(as[FindIndex(as, alertId)])]

\* if (message.type === "ACCEPT_ALERT") { ... }
AcceptAlert(c, msg) ==
  /\ CanHandle(c)
  /\ msg.type = "ACCEPT_ALERT"
  /\ IF ~HasPayload(msg) THEN Caught
     ELSE LET alertId == Get(msg.payload, "id") IN
          /\ alerts' = AcceptMap(alerts, alertId, now)
          /\ Broadcast(AlertUpdated(alerts', alertId))
          /\ UNCHANGED <<history, activeUsers, disasterMode, trafficSimulation>>
  /\ Handled(c, msg, ~HasPayload(msg) \/ SendThrows)

\* mutant of Archived: the copy put into history is not flagged resolved
ArchivedUnflagged(a, t, resolutionType) ==
  Spread(a, [resolvedAt |-> ToISOString(t), resolutionType |-> resolutionType])

\* { ...alerts[alertIndex], resolved: true, resolvedAt, resolutionType }
Archived(a, t, resolutionType) ==
  Spread(a, [resolved |-> TRUE, resolvedAt |-> ToISOString(t),
             resolutionType |-> resolutionType])

\* mutant of Splice: splice(alertIndex) without a count removes the rest of the list
SpliceRest(as, alertIndex) == SubSeq(as, 1, alertIndex - 1)

\* alerts.splice(alertIndex, 1)
Splice(as, alertIndex) ==
  [i \in 1..(Len(as) - 1) |-> IF i < alertIndex THEN as[i] ELSE as[i + 1]]

\* mutant of Archive: the user of the archived alert is dropped from activeUsers
ArchiveForgetsUser(alertId, resolutionType) ==
  LET alertIndex == FindIndex(alerts, alertId) IN
  IF alertIndex # -1
  THEN LET resolvedAlert == Archived(alerts[alertIndex], now, resolutionType) IN
       /\ history' = Append(history, resolvedAlert)
       /\ alerts' = Splice(alerts, alertIndex)
       /\ activeUsers' = [u \in DOMAIN activeUsers \ {resolvedAlert.userId} |->
                            activeUsers[u]]
       /\ Broadcast([type |-> "ALERT_RESOLVED",
                     payload |-> [alertId |-> alertId,
                                  resolvedAlert |-> JsonObj(resolvedAlert)]])
       /\ UNCHANGED <<disasterMode, trafficSimulation>>
  ELSE NoSend /\ UNCHANGED store

\* the body shared by the RESOLVE_ALERT and REJECT_ALERT handlers
Archive(alertId, resolutionType) ==
  LET alertIndex == FindIndex(alerts, alertId) IN
  IF alertIndex # -1
  THEN LET resolvedAlert == Archived(alerts[alertIndex], now, resolutionType) IN
       /\ history' = Append(history, resolvedAlert)
       /\ alerts' = Splice(alerts, alertIndex)
       /\ Broadcast([type |-> "ALERT_RESOLVED",
                     payload |-> [alertId |-> alertId,
                                  resolvedAlert |-> JsonObj(resolvedAlert)]])
       /\ UNCHANGED <<activeUsers, disasterMode, trafficSimulation>>
  ELSE NoSend /\ UNCHANGED store

\* the broadcast of the archive is reached and throws
ArchiveThrows(msg) == FindIndex(alerts, Get(msg.payload, "id")) # -1 /\ SendThrows

\* if (message.type === "RESOLVE_ALERT") { ... }
ResolveAlert(c, msg) ==
  /\ CanHandle(c)
  /\ msg.type = "RESOLVE_ALERT"
  /\ IF ~HasPayload(msg) THEN Caught
     ELSE Archive(Get(msg.payload, "id"), "Resolved")
  /\ Handled(c, msg, ~HasPayload(msg) \/ ArchiveThrows(msg))

\* if (message.type === "REJECT_ALERT") { ... }
RejectAlert(c, msg) ==
  /\ CanHandle(c)
  /\ msg.type = "REJECT_ALERT"
  /\ IF ~HasPayload(msg) THEN Caught
     ELSE Archive(Get(msg.payload, "id"), "Rejected")
  /\ Handled(c, msg, ~HasPayload(msg) \/ ArchiveThrows(msg))

\* mutant of Upsert: a user who has an entry keeps it
UpsertIfNew(users, userId, location, fullAddress, t) ==
  IF ToKey(userId) \in DOMAIN users
  THEN users
  ELSE Spread(users,
              ToKey(userId) :> [location |-> location, fullAddress |-> fullAddress,
                                lastSeen |-> ToISOString(t)])

\* activeUsers[userId] = { location, fullAddress, lastSeen }
Upsert(users, userId, location, fullAddress, t) ==
  Spread(users,
         ToKey(userId) :> [location |-> location, fullAddress |-> fullAddress,
                           lastSeen |-> ToISOString(t)])

\* mutant of PatchLocation: the map does not test the userId
PatchLocationAll(as, userId, location, fullAddress) ==
  [i \in DOMAIN as |->
     Spread(as[i], [location |-> location, fullAddress |-> fullAddress])]

\* alerts.map(a => a.userId === userId ? { ...a, location, fullAddress } : a)
PatchLocation(as, userId, location, fullAddress) ==
  [i \in DOMAIN as |->
     IF as[i].userId = userId
     THEN Spread(as[i], [location |-> location, fullAddress |-> fullAddress])
     ELSE as[i]]

\* mutant of LocationUpdate: the frame is built before the store is changed
LocationUpdateStale(c, msg) ==
  /\ CanHandle(c)
  /\ msg.type = "LOCATION_UPDATE"
  /\ IF ~HasPayload(msg) THEN Caught
     ELSE LET userId == Get(msg.payload, "userId")
              location == Get(msg.payload, "location")
              fullAddress == Get(msg.payload, "fullAddress")
          IN
          /\ activeUsers' = Upsert(activeUsers, userId, location, fullAddress, now)
          /\ alerts' = PatchLocation(alerts, userId, location, fullAddress)
          /\ Broadcast([type |-> "USER_LOCATION_UPDATED",
                        payload |->
                          Spread(JsonObj([userId |-> userId, location |-> location,
                                          fullAddress |-> fullAddress]),
                                 [activeUsers |-> JsonMap(activeUsers)])])
          /\ UNCHANGED <<history, disasterMode, trafficSimulation>>
  /\ Handled(c, msg, ~HasPayload(msg) \/ SendThrows)

\* mutant of LocationUpdate: the archived alerts of the user are patched as well
LocationUpdateArchived(c, msg) ==
  /\ CanHandle(c)
  /\ msg.type = "LOCATION_UPDATE"
  /\ IF ~HasPayload(msg) THEN Caught
     ELSE LET userId == Get(msg.payload, "userId")
              location == Get(msg.payload, "location")
              fullAddress == Get(msg.payload, "fullAddress")
          IN
          /\ activeUsers' = Upsert(activeUsers, userId, location, fullAddress, now)
          /\ alerts' = PatchLocation(alerts, userId, location, fullAddress)
          /\ history' = PatchLocation(history, userId, location, fullAddress)
          /\ Broadcast([type |-> "USER_LOCATION_UPDATED",
                        payload |->
                          Spread(JsonObj([userId |-> userId, location |-> location,
                                          fullAddress |-> fullAddress]),
                                 [activeUsers |-> JsonMap(activeUsers')])])
          /\ UNCHANGED <<disasterMode, trafficSimulation>>
  /\ Handled(c, msg, ~HasPayload(msg) \/ SendThrows)

\* if (message.type === "LOCATION_UPDATE") { ... }
LocationUpdate(c, msg) ==
  /\ CanHandle(c)
  /\ msg.type = "LOCATION_UPDATE"
  /\ IF ~HasPayload(msg) THEN Caught
     ELSE LET userId == Get(msg.payload, "userId")
              location == Get(msg.payload, "location")
              fullAddress == Get(msg.payload, "fullAddress")
          IN
          /\ activeUsers' = Upsert(activeUsers, userId, location, fullAddress, now)
          /\ alerts' = PatchLocation(alerts, userId, location, fullAddress)
          /\ Broadcast([type |-> "USER_LOCATION_UPDATED",
                        payload |->
                          Spread(JsonObj([userId |-> userId, location |-> location,
                                          fullAddress |-> fullAddress]),
                                 [activeUsers |-> JsonMap(activeUsers')])])
          /\ UNCHANGED <<history, disasterMode, trafficSimulation>>
  /\ Handled(c, msg, ~HasPayload(msg) \/ SendThrows)

\* mutant of ActivateDisaster: declaring a disaster makes every active alert Critical
ActivateDisasterEscalates(c, msg) ==
  /\ CanHandle(c)
  /\ msg.type = "ACTIVATE_DISASTER"
  /\ IF ~HasPayload(msg) THEN Caught
     ELSE /\ disasterMode' = [active |-> TRUE, type |-> Get(msg.payload, "type"),
                              timestamp |-> ToISOString(now)]
          /\ alerts' = [i \in DOMAIN alerts |-> Spread(alerts[i], [status |-> "Critical"])]
          /\ Broadcast([type |-> "DISASTER_ACTIVATED",
                        payload |-> JsonObj(disasterMode')])
          /\ UNCHANGED <<history, activeUsers, trafficSimulation>>
  /\ Handled(c, msg, ~HasPayload(msg) \/ SendThrows)

\* if (message.type === "ACTIVATE_DISASTER") { ... }
ActivateDisaster(c, msg) ==
  /\ CanHandle(c)
  /\ msg.type = "ACTIVATE_DISASTER"
  /\ IF ~HasPayload(msg) THEN Caught
     ELSE /\ disasterMode' = [active |-> TRUE, type |-> Get(msg.payload, "type"),
                              timestamp |-> ToISOString(now)]
          /\ Broadcast([type |-> "DISASTER_ACTIVATED",
                        payload |-> JsonObj(disasterMode')])
          /\ UNCHANGED <<alerts, history, activeUsers, trafficSimulation>>
  /\ Handled(c, msg, ~HasPayload(msg) \/ SendThrows)

\* mutant of DeactivateDisaster: only the flag active is reset
DeactivateKeepsType(c, msg) ==
  /\ CanHandle(c)
  /\ msg.type = "DEACTIVATE_DISASTER"
  /\ disasterMode' = [disasterMode EXCEPT !.active = FALSE]
  /\ Broadcast([type |-> "DISASTER_DEACTIVATED", payload |-> JsonObj(disasterMode')])
  /\ UNCHANGED <<alerts, history, activeUsers, trafficSimulation>>
  /\ Handled(c, msg, SendThrows)

\* if (message.type === "DEACTIVATE_DISASTER") { ... }
DeactivateDisaster(c, msg) ==
  /\ CanHandle(c)
  /\ msg.type = "DEACTIVATE_DISASTER"
  /\ disasterMode' = [active |-> FALSE, type |-> Null, timestamp |-> Null]
  /\ Broadcast([type |-> "DISASTER_DEACTIVATED", payload |-> JsonObj(disasterMode')])
  /\ UNCHANGED <<alerts, history, activeUsers, trafficSimulation>>
  /\ Handled(c, msg, SendThrows)

\* mutant of UpdateTrafficSim: the payload replaces the flags instead of being
\* spread over them
UpdateTrafficSimReplace(c, msg) ==
  /\ CanHandle(c)
  /\ msg.type = "UPDATE_TRAFFIC_SIM"
  /\ trafficSimulation' = IF HasPayload(msg) THEN msg.payload ELSE <<>>
  /\ Broadcast([type |-> "TRAFFIC_SIM_UPDATED", payload |-> trafficSimulation'])
  /\ UNCHANGED <<alerts, history, activeUsers, disasterMode>>
  /\ Handled(c, msg, SendThrows)

\* if (message.type === "UPDATE_TRAFFIC_SIM") { ... }; spreading undefined adds nothing
UpdateTrafficSim(c, msg) ==
  /\ CanHandle(c)
  /\ msg.type = "UPDATE_TRAFFIC_SIM"
  /\ trafficSimulation' =
       Spread(trafficSimulation, IF HasPayload(msg) THEN msg.payload ELSE <<>>)
  /\ Broadcast([type |-> "TRAFFIC_SIM_UPDATED", payload |-> trafficSimulation'])
  /\ UNCHANGED <<alerts, history, activeUsers, disasterMode>>
  /\ Handled(c, msg, SendThrows)

\* const message = JSON.parse(data.toString()) throws a SyntaxError: the frame is
\* not JSON text
Unparseable(c, data) ==
  /\ CanHandle(c)
  /\ Caught
  /\ Handled(c, [type |-> "<SyntaxError>", data |-> data], TRUE)

\* the types the handler has an if (message.type === "...") for
HandledTypes ==
  {"UPDATE_TRAFFIC_SIM", "ACTIVATE_DISASTER", "DEACTIVATE_DISASTER", "NEW_ALERT",
   "ACCEPT_ALERT", "RESOLVE_ALERT", "REJECT_ALERT", "LOCATION_UPDATE"}

\* mutant of NoBranch: a frame of a type the server does not know is relayed to
\* the open connections as it is
NoBranchRelays(c, msg) ==
  /\ CanHandle(c)
  /\ msg.type \notin HandledTypes
  /\ Broadcast(msg)
  /\ UNCHANGED store
  /\ Handled(c, msg, SendThrows)

\* a parsed frame of any other type: every if is false, the try block ends having
\* assigned and sent nothing
NoBranch(c, msg) ==
  /\ CanHandle(c)
  /\ msg.type \notin HandledTypes
  /\ NoSend
  /\ UNCHANGED store
  /\ Handled(c, msg, FALSE)

\* ----------------------------------------------------------------- inputs
NewAlertPayloads ==
  {[location |-> "L1", fullAddress |-> "A1", userId |-> "U1", urgency |-> "Medium",
    transcript |-> "help", aiReasoning |-> "r1"],
   [location |-> "L2", userId |-> "U2"]}

\* ids a client can name: those of the alerts it has seen, and one that never existed
AlertIds ==
  {alerts[i].id : i \in DOMAIN alerts} \cup {history[i].id : i \in DOMAIN history}
    \cup {"nope"}

LocationPayloads ==
  {[userId |-> "U1", location |-> "L3", fullAddress |-> "A3"],
   [userId |-> "U2", location |-> "L4"]}

DisasterTypes == {"Flood"}

TrafficPayloads == {[active |-> TRUE], [showHeatmap |-> FALSE, showReroutes |-> FALSE]}

\* connections coming and going, and time passing
Environment ==
  \/ \E c \in Conn : Connection(c)
  \/ \E c \in Conn : Closing(c)
  \/ \E c \in Conn : Close(c)
  \/ Tick

\* a frame about an alert arrives on some open connection
ReceiveAlert ==
  \/ \E c \in Conn, p \in NewAlertPayloads :
       NewAlert(c, [type |-> "NEW_ALERT", payload |-> p])
  \/ \E c \in Conn, id \in AlertIds :
       AcceptAlert(c, [type |-> "ACCEPT_ALERT", payload |-> [id |-> id]])
  \/ \E c \in Conn, id \in AlertIds :
       ResolveAlert(c, [type |-> "RESOLVE_ALERT", payload |-> [id |-> id]])
  \/ \E c \in Conn, id \in AlertIds :
       RejectAlert(c, [type |-> "REJECT_ALERT", payload |-> [id |-> id]])

\* a frame about a user location or a mode flag arrives on some open connection
ReceiveOther ==
  \/ \E c \in Conn, p \in LocationPayloads :
       LocationUpdate(c, [type |-> "LOCATION_UPDATE", payload |-> p])
  \/ \E c \in Conn, t \in DisasterTypes :
       ActivateDisaster(c, [type |-> "ACTIVATE_DISASTER", payload |-> [type |-> t]])
  \/ \E c \in Conn : DeactivateDisaster(c, [type |-> "DEACTIVATE_DISASTER"])
  \/ \E c \in Conn, p \in TrafficPayloads :
       UpdateTrafficSim(c, [type |-> "UPDATE_TRAFFIC_SIM", payload |-> p])

\* the server, all its handlers, for MaxMsgs frames
Next ==
  \/ Environment
  \/ ReceiveAlert
  \/ ReceiveOther

Spec == Init /\ [][Next]_vars

\* the alert lifecycle alone, for MaxLifecycleMsgs frames
InitLifecycle == Started /\ budget = MaxLifecycleMsgs

NextLifecycle ==
  \/ Environment
  \/ ReceiveAlert

SpecLifecycle == InitLifecycle /\ [][NextLifecycle]_vars

\* a user who has reported a location reports another
LocationMoves == {[userId |-> "U1", location |-> "L5", fullAddress |-> "A5"]}

\* a LOCATION_UPDATE arrives on some open connection
ReceiveLocation ==
  \E c \in Conn, p \in LocationPayloads \cup LocationMoves :
    LocationUpdate(c, [type |-> "LOCATION_UPDATE", payload |-> p])

\* alerts and moving users, for MaxLocationMsgs frames
InitLocation == Started /\ budget = MaxLocationMsgs

NextLocation ==
  \/ Environment
  \/ ReceiveAlert
  \/ ReceiveLocation

SpecLocation == InitLocation /\ [][NextLocation]_vars

\* frames that are not JSON text
BadData == {"{not json"}

\* frames of a handled type that lack the payload or a field of it
NoPayloadFrames(type) == {[type |-> type]}

NewAlertPartial == {[type |-> "NEW_ALERT", payload |-> [userId |-> "U1"]]}

LocationPartial ==
  {[type |-> "LOCATION_UPDATE", payload |-> [location |-> "L3"]],
   [type |-> "LOCATION_UPDATE", payload |-> [userId |-> "U1"]]}

\* a NEW_ALERT whose payload sets fields that are the server's to set
NewAlertForged ==
  {[type |-> "NEW_ALERT",
    payload |-> [location |-> "L5", userId |-> "U1", id |-> "mine", timestamp |-> "T0",
                 accepted |-> TRUE, resolved |-> TRUE]]}

\* a NEW_ALERT whose urgency is none of 'Critical' | 'Medium' | 'Low'
NewAlertUrgent ==
  {[type |-> "NEW_ALERT", payload |-> [location |-> "L6", urgency |-> "Extreme"]]}

DisasterPartial ==
  {[type |-> "ACTIVATE_DISASTER", payload |-> <<>>],
   [type |-> "ACTIVATE_DISASTER", payload |-> [type |-> Null]]}

\* a frame that is not what the protocol asks for arrives on some open connection
ReceiveMalformed ==
  \/ \E c \in Conn, data \in BadData : Unparseable(c, data)
  \/ \E c \in Conn,
          msg \in NoPayloadFrames("NEW_ALERT") \cup NewAlertPartial \cup NewAlertForged
                    \cup NewAlertUrgent :
       NewAlert(c, msg)
  \/ \E c \in Conn, msg \in NoPayloadFrames("ACCEPT_ALERT") : AcceptAlert(c, msg)
  \/ \E c \in Conn, msg \in NoPayloadFrames("RESOLVE_ALERT") : ResolveAlert(c, msg)
  \/ \E c \in Conn, msg \in NoPayloadFrames("REJECT_ALERT") : RejectAlert(c, msg)
  \/ \E c \in Conn, msg \in NoPayloadFrames("LOCATION_UPDATE") \cup LocationPartial :
       LocationUpdate(c, msg)
  \/ \E c \in Conn, msg \in NoPayloadFrames("ACTIVATE_DISASTER") \cup DisasterPartial :
       ActivateDisaster(c, msg)

\* the server with well-formed and malformed frames, for MaxMalformedMsgs frames
InitMalformed == Started /\ budget = MaxMalformedMsgs

NextMalformed ==
  \/ Environment
  \/ ReceiveAlert
  \/ ReceiveMalformed

SpecMalformed == InitMalformed /\ [][NextMalformed]_vars

\* useState<'Normal' | 'Emergency' | 'Traffic'>('Normal'): the modes the toggle sends
MapViewModes == {"Normal", "Emergency", "Traffic"}

\* updateMapViewMode(mode) and updateAlertVideo(alertId, videoData) of the client
\* send frames of types the server has no branch for
ReceiveUnhandled ==
  \/ \E c \in Conn, mode \in MapViewModes :
       NoBranch(c, [type |-> "SET_MAP_VIEW_MODE", payload |-> mode])
  \/ \E c \in Conn, id \in AlertIds :
       NoBranch(c, [type |-> "UPDATE_ALERT_VIDEO",
                    payload |-> [id |-> id, videoData |-> "V1"]])

\* alerts and frames of unhandled types, for MaxUnhandledMsgs frames
InitUnhandled == Started /\ budget = MaxUnhandledMsgs

NextUnhandled ==
  \/ Environment
  \/ ReceiveAlert
  \/ ReceiveUnhandled

SpecUnhandled == InitUnhandled /\ [][NextUnhandled]_vars

\* the client of connection c stops reading its socket; the socket stays OPEN
Stalls(c) ==
  /\ readyState[c] = "OPEN"
  /\ c \notin stalled
  /\ stalled' = stalled \cup {c}
  /\ NoSend
  /\ UNCHANGED <<store, readyState, created, now, lastMsg, handled, budget, outbox,
                 faulty>>

\* the server with clients that stop reading, for MaxSlowMsgs frames
InitSlow == Started /\ budget = MaxSlowMsgs

NextSlow ==
  \/ Environment
  \/ \E c \in Conn : Stalls(c)
  \/ ReceiveAlert

SpecSlow == InitSlow /\ [][NextSlow]_vars

\* from now on client.send() throws on connection c (the socket is still OPEN)
SendBreaks(c) ==
  /\ readyState[c] = "OPEN"
  /\ c \notin faulty
  /\ faulty' = faulty \cup {c}
  /\ NoSend
  /\ UNCHANGED <<store, readyState, created, now, lastMsg, handled, budget, outbox,
                 stalled>>

\* the server with connections whose send() throws, for MaxFailMsgs frames
InitSendFail == Started /\ budget = MaxFailMsgs

NextSendFail ==
  \/ Environment
  \/ \E c \in Conn : SendBreaks(c)
  \/ ReceiveAlert

SpecSendFail == InitSendFail /\ [][NextSendFail]_vars

\* -------------------------------------------------- the client's operations
\* const [userId] = useState(() => 'User_' + Math.floor(Math.random() * 1000))
UserIdOf(c) == "User_" \o ToString(c)

\* the number of frames sent by clients and not handled yet
InFlight ==
  Cardinality({x \in Conn \X (1..MaxOutbox) : x[2] <= Len(outbox[x[1]])})

\* socketRef.current?.readyState === WebSocket.OPEN, and room left in the run
CanSend(c) ==
  /\ readyState[c] = "OPEN"
  /\ Len(outbox[c]) < MaxOutbox
  /\ handled + InFlight < budget

\* a client operation: the state update it makes at once, then socket.send(frame)
Local(c, u, frame) ==
  /\ CanSend(c)
  /\ ui' = [ui EXCEPT ![c] = u]
  /\ outbox' = [outbox EXCEPT ![c] = Append(@, frame)]
  /\ sent' = [d \in Conn |-> <<>>]
  /\ UNCHANGED <<store, readyState, first, created, now, lastMsg, handled, budget,
                 faulty, stalled>>

\* const newAlert: Alert = { id: 'Alert_' + Date.now(), ... } of triggerAlert
LocalAlert(c, data, t) ==
  [serial |-> 0,
   id |-> "Alert_" \o ToString(t),
   timestamp |-> ToISOString(t),
   status |-> OrElse(Get(data, "urgency"), "Critical"),
   location |-> Get(data, "location"),
   fullAddress |-> Get(data, "fullAddress"),
   userId |-> UserIdOf(c),
   transcript |-> Get(data, "transcript"),
   aiReasoning |-> Get(data, "aiReasoning"),
   accepted |-> FALSE,
   videoData |-> Get(data, "videoData"),
   videoAnalysis |-> Get(data, "videoAnalysis")]

\* triggerAlert(data)
triggerAlert(c, data) ==
  LET newAlert == LocalAlert(c, data, now) IN
  Local(c,
        [alerts |-> <<newAlert>> \o ui[c].alerts, history |-> ui[c].history],
        [type |-> "NEW_ALERT", localId |-> newAlert.id,
         payload |-> JsonObj([location |-> Get(data, "location"),
                              fullAddress |-> Get(data, "fullAddress"),
                              userId |-> UserIdOf(c),
                              transcript |-> Get(data, "transcript"),
                              urgency |-> Get(data, "urgency"),
                              aiReasoning |-> Get(data, "aiReasoning"),
                              videoData |-> Get(data, "videoData"),
                              videoAnalysis |-> Get(data, "videoAnalysis")])])

\* acceptAlert(id)
acceptAlert(c, id) ==
  Local(c,
        [alerts |-> AcceptMap(ui[c].alerts, id, now), history |-> ui[c].history],
        [type |-> "ACCEPT_ALERT", payload |-> [id |-> id]])

\* the body shared by rejectAlert(id) and resolveAlert(id)
UiArchive(u, id, t, resolutionType) ==
  IF FindIndex(u.alerts, id) # -1
  THEN [alerts |-> SelectSeq(u.alerts, LAMBDA a : a.id # id),
        history |-> <<Archived(u.alerts[FindIndex(u.alerts, id)], t, resolutionType)>>
                      \o u.history]
  ELSE u

\* rejectAlert(id)
rejectAlert(c, id) ==
  Local(c, UiArchive(ui[c], id, now, "Rejected"),
        [type |-> "REJECT_ALERT", payload |-> [id |-> id]])

\* resolveAlert(id)
resolveAlert(c, id) ==
  Local(c, UiArchive(ui[c], id, now, "Resolved"),
        [type |-> "RESOLVE_ALERT", payload |-> [id |-> id]])

\* what the user panel passes to triggerAlert
TriggerData ==
  {[location |-> "L1", fullAddress |-> "A1", urgency |-> "Medium",
    transcript |-> "help", aiReasoning |-> "r1"]}

\* the alerts the operator of c can click on
UiIds(c) == {ui[c].alerts[i].id : i \in DOMAIN ui[c].alerts}

\* a user or an operator acts in the client of some connection
ClientOp ==
  \/ \E c \in Conn, data \in TriggerData : triggerAlert(c, data)
  \/ \E c \in Conn : \E id \in UiIds(c) : acceptAlert(c, id)
  \/ \E c \in Conn : \E id \in UiIds(c) : rejectAlert(c, id)
  \/ \E c \in Conn : \E id \in UiIds(c) : resolveAlert(c, id)

\* mutant of NextFrame: the newest frame of the connection is handled first
NextFrameLast(c) == outbox[c][Len(outbox[c])]

\* the "message" event hands the handler the frames of a connection in the order
\* they arrived, which is the order they were sent in
NextFrame(c) == outbox[c][1]

\* the server handles the oldest frame a client has sent
ReceiveSent ==
  \/ \E c \in Conn : outbox[c] # <<>> /\ NewAlert(c, NextFrame(c))
  \/ \E c \in Conn : outbox[c] # <<>> /\ AcceptAlert(c, NextFrame(c))
  \/ \E c \in Conn : outbox[c] # <<>> /\ RejectAlert(c, NextFrame(c))
  \/ \E c \in Conn : outbox[c] # <<>> /\ ResolveAlert(c, NextFrame(c))

\* clients and server together, for MaxClientMsgs frames
InitClient == Started /\ budget = MaxClientMsgs

NextClient ==
  \/ Environment
  \/ ClientOp
  \/ ReceiveSent

SpecClient == InitClient /\ [][NextClient]_vars

\* ============================================================= properties
Ids(as) == {as[i].id : i \in DOMAIN as}

Serials(as) == {as[i].serial : i \in DOMAIN as}

\* the entry of a list for the k-th alert created
Entry(as, k) == as[CHOOSE i \in DOMAIN as : as[i].serial = k]

\* the lifecycle stage of the k-th alert created, given the two lists
Stage(as, hs, k) ==
  IF k \in Serials(hs) THEN "archived"
  ELSE IF k \in Serials(as)
       THEN (IF Entry(as, k).accepted THEN "accepted" ELSE "pending")
       ELSE "none"

\* this step handled one inbound frame
MsgStep == handled' = handled + 1

\* the frame handled by this step names an alert by id
IdStep(types) ==
  /\ MsgStep
  /\ lastMsg'.msg.type \in types
  /\ HasPayload(lastMsg'.msg)

NothingSent == \A c \in Conn : sent[c] = <<>>

\* the type of the one frame the last step sent to c, "" when it sent none
SentType(c) == IF sent[c] = <<>> THEN "" ELSE sent[c][1].type

\* C1: every alert id that NEW_ALERT has assigned is in exactly one of the active
\* list and the history list, never in both and never in neither.
C1_ExactlyOneList ==
  \A k \in DOMAIN created :
    (created[k] \in Ids(alerts)) # (created[k] \in Ids(history))

\* C2: the ids assigned by NEW_ALERT are pairwise different over the whole run.
C2_UniqueIds ==
  \A i, j \in DOMAIN created : i # j => created[i] # created[j]

\* C3: every alert in the active list is pending or accepted and not resolved, and
\* every history entry has resolved = true and resolutionType Resolved or Rejected.
C3_LifecycleStage ==
  /\ \A i \in DOMAIN alerts :
       /\ alerts[i].accepted \in BOOLEAN
       /\ "resolved" \in DOMAIN alerts[i] => alerts[i].resolved = FALSE
       /\ "resolutionType" \notin DOMAIN alerts[i]
  /\ \A i \in DOMAIN history :
       /\ "resolved" \in DOMAIN history[i]
       /\ history[i].resolved = TRUE
       /\ "resolutionType" \in DOMAIN history[i]
       /\ history[i].resolutionType \in {"Resolved", "Rejected"}

\* C3 witness: an alert that was accepted and then rejected sits in history while
\* nothing is left in the active list.
C3_Witness ==
  /\ alerts = <<>>
  /\ \E i \in DOMAIN history :
       history[i].accepted /\ history[i].resolutionType = "Rejected"

\* C4: in no step does an alert move backward: an accepted alert stays accepted or
\* becomes archived, an archived alert stays archived, is not in the active list
\* and keeps its resolutionType.
C4_NoBackward ==
  [][\A k \in 1..Len(created) :
       /\ Stage(alerts, history, k) = "accepted"
            => Stage(alerts', history', k) \in {"accepted", "archived"}
       /\ Stage(alerts, history, k) = "archived"
            => /\ Stage(alerts', history', k) = "archived"
               /\ k \notin Serials(alerts')
               /\ Entry(history', k).resolutionType = Entry(history, k).resolutionType
    ]_vars

\* C4 witness: an ACCEPT_ALERT has just been handled for an alert that is archived
\* already, and the alert is still in history only.
C4_Witness ==
  /\ lastMsg.msg.type = "ACCEPT_ALERT"
  /\ lastMsg.msg.payload.id \in Ids(history)
  /\ lastMsg.msg.payload.id \notin Ids(alerts)

\* C5: a RESOLVE_ALERT or REJECT_ALERT for an id that is archived already adds
\* nothing to history, changes no history entry and sends no frame.
C5_ArchivedIdNoOp ==
  [][(IdStep({"RESOLVE_ALERT", "REJECT_ALERT"})
        /\ lastMsg'.msg.payload.id \in Ids(history))
       => (history' = history /\ NothingSent')
    ]_vars

\* C6: ACCEPT_ALERT, RESOLVE_ALERT or REJECT_ALERT for an id that is not in the
\* active list leaves the active list, history, active users and mode flags as they
\* were, closes no connection and is handled without an error.
C6_UnknownIdNoChange ==
  [][(IdStep({"ACCEPT_ALERT", "RESOLVE_ALERT", "REJECT_ALERT"})
        /\ lastMsg'.msg.payload.id \notin Ids(alerts))
       => (UNCHANGED store /\ UNCHANGED readyState /\ ~lastMsg'.threw)
    ]_vars

\* C6 witness: a RESOLVE_ALERT for an id that never existed has been handled while
\* an alert was active, and the alert is still there.
C6_Witness ==
  /\ lastMsg.msg.type = "RESOLVE_ALERT"
  /\ lastMsg.msg.payload.id = "nope"
  /\ alerts # <<>>
  /\ history = <<>>

\* C7: ACCEPT_ALERT, RESOLVE_ALERT or REJECT_ALERT for an id that is not in the
\* active list sends no frame to any connection.
C7_UnknownIdSendsNothing ==
  [][(IdStep({"ACCEPT_ALERT", "RESOLVE_ALERT", "REJECT_ALERT"})
        /\ lastMsg'.msg.payload.id \notin Ids(alerts))
       => NothingSent'
    ]_vars

\* C8: the first frame a connection is sent is INIT_DATA, every connection that
\* exists has been sent it, and the step that sends INIT_DATA to one connection
\* sends nothing to any other.
C8_InitDataFirst ==
  \A c \in Conn :
    /\ first[c].type \in {"NONE", "INIT_DATA"}
    /\ readyState[c] # "NONE" => first[c].type = "INIT_DATA"
    /\ first[c].type = "NONE" => sent[c] = <<>>
    /\ SentType(c) = "INIT_DATA" => \A d \in Conn \ {c} : sent[d] = <<>>

\* C8 witness: a second connection is sent its INIT_DATA while the first is open
\* and alerts exist, and the first connection is sent nothing in that step.
C8_Witness ==
  /\ SentType(2) = "INIT_DATA"
  /\ readyState[1] = "OPEN"
  /\ sent[1] = <<>>
  /\ alerts # <<>>

\* C9: the INIT_DATA just sent to a connection carries exactly the active alerts,
\* history, active users and mode flags of the store, and an ALERT_CREATED sent to
\* a connection is never for an alert that was in that connection's INIT_DATA.
C9_Snapshot ==
  \A c \in Conn :
    /\ SentType(c) = "INIT_DATA"
         => /\ sent[c][1].payload.alerts = JsonSeq(alerts)
            /\ sent[c][1].payload.history = JsonSeq(history)
            /\ sent[c][1].payload.activeUsers = JsonMap(activeUsers)
            /\ sent[c][1].payload.disasterMode = JsonObj(disasterMode)
            /\ sent[c][1].payload.trafficSimulation = trafficSimulation
            /\ first[c].serials = Serials(alerts) \cup Serials(history)
    /\ SentType(c) = "ALERT_CREATED"
         => /\ first[c].type = "INIT_DATA"
            /\ sent[c][1].payload.serial \notin first[c].serials

\* C9 witness: a connection whose INIT_DATA carried an archived alert is sent an
\* ALERT_CREATED for a later alert.
C9_Witness ==
  \E c \in Conn :
    /\ first[c].serials # {}
    /\ SentType(c) = "ALERT_CREATED"
    /\ history # <<>>

\* the broadcast paired with an inbound type
Paired(type) ==
  CASE type = "NEW_ALERT" -> "ALERT_CREATED"
    [] type = "ACCEPT_ALERT" -> "ALERT_UPDATED"
    [] type = "RESOLVE_ALERT" -> "ALERT_RESOLVED"
    [] type = "REJECT_ALERT" -> "ALERT_RESOLVED"
    [] type = "LOCATION_UPDATE" -> "USER_LOCATION_UPDATED"

\* C10: a NEW_ALERT, ACCEPT_ALERT, RESOLVE_ALERT, REJECT_ALERT or LOCATION_UPDATE
\* that changes the store sends one and the same frame, of the paired type, to
\* every connection that is open, and the sender is one of them.
C10_BroadcastToAllOpen ==
  [][(/\ MsgStep
      /\ lastMsg'.msg.type \in {"NEW_ALERT", "ACCEPT_ALERT", "RESOLVE_ALERT",
                                "REJECT_ALERT", "LOCATION_UPDATE"}
      /\ store' # store)
       => \A c \in Conn :
            (readyState[c] = "OPEN" \/ c = lastMsg'.from)
              => /\ Len(sent'[c]) = 1
                 /\ sent'[c][1].type = Paired(lastMsg'.msg.type)
                 /\ \A d \in Conn : readyState[d] = "OPEN" => sent'[d] = sent'[c]
    ]_vars

\* C10 witness: two open connections, the sender and another, have both just been
\* sent the same ALERT_RESOLVED frame.
C10_Witness ==
  /\ readyState[1] = "OPEN"
  /\ readyState[2] = "OPEN"
  /\ lastMsg.from = 2
  /\ SentType(1) = "ALERT_RESOLVED"
  /\ sent[1] = sent[2]

\* the number of entries of a list that stand for one alert: the k-th alert the
\* server created, or the local copy with id localId that its client made of it
Copies(as, k, localId) ==
  Cardinality({i \in DOMAIN as : as[i].serial = k \/ as[i].id = localId})

\* C11: when the broadcast for a NEW_ALERT, RESOLVE_ALERT or REJECT_ALERT that
\* client A sent has reached A, the alert list of A and the history of A each hold
\* the alert of that event at most once.
C11_EchoNoDuplicate ==
  [][(/\ MsgStep
      /\ lastMsg'.msg.type \in {"NEW_ALERT", "RESOLVE_ALERT", "REJECT_ALERT"}
      /\ sent'[lastMsg'.from] # <<>>)
       => LET A == lastMsg'.from
              m == sent'[A][1]
              k == IF m.type = "ALERT_CREATED" THEN m.payload.serial
                   ELSE m.payload.resolvedAlert.serial
              localId == Get(lastMsg'.msg, "localId")
          IN /\ Copies(ui'[A].alerts, k, localId) <= 1
             /\ Copies(ui'[A].history, k, localId) <= 1
    ]_vars

\* the entries of a list as a set, each as JSON shows it
Entries(as) == {JsonObj(as[i]) : i \in DOMAIN as}

\* C12: the client of an open connection, having applied its INIT_DATA and every
\* frame sent to it since, holds the same set of active alerts and the same set of
\* history entries as the store, field by field.
C12_ClientEqualsStore ==
  \A c \in Conn :
    readyState[c] = "OPEN"
      => /\ Entries(ui[c].alerts) = Entries(alerts)
         /\ Entries(ui[c].history) = Entries(history)

\* C13: a step that handles a frame of a connection handles the oldest frame that
\* connection has sent and no other; it sends each connection that is open the same
\* frames, at most one; and a step that handles no frame sends no broadcast (only
\* an INIT_DATA to a new connection).  So every connection that stays open is sent
\* the broadcasts in the order the server handled the frames.
C13_Order ==
  [][/\ MsgStep
        => /\ outbox[lastMsg'.from] # <<>>
           /\ lastMsg'.msg = outbox[lastMsg'.from][1]
           /\ outbox'[lastMsg'.from] = Tail(outbox[lastMsg'.from])
           /\ \A c \in Conn \ {lastMsg'.from} : outbox'[c] = outbox[c]
           /\ \A c, d \in Conn :
                (readyState[c] = "OPEN" /\ readyState[d] = "OPEN")
                  => (sent'[c] = sent'[d] /\ Len(sent'[c]) <= 1)
     /\ ~MsgStep
        => \A c \in Conn : sent'[c] = <<>> \/ sent'[c][1].type = "INIT_DATA"
    ]_vars

\* C13 witness: connection 1 sent two different frames; the first has been handled,
\* its broadcast went to both open connections, and the second is still waiting.
C13_Witness ==
  /\ lastMsg.from = 1
  /\ Len(outbox[1]) = 1
  /\ outbox[1][1] # lastMsg.msg
  /\ readyState[2] = "OPEN"
  /\ sent[1] # <<>>
  /\ sent[1] = sent[2]

\* every frame the last step sent shows the store as it is now: the alert created,
\* updated or archived, the activeUsers map, the disaster flags, the traffic flags
FramesShowStore ==
  \A c \in Conn :
    sent[c] # <<>>
      => LET m == sent[c][1] IN
         /\ m.type = "ALERT_CREATED" => m.payload = JsonObj(alerts[Len(alerts)])
         /\ (m.type = "ALERT_UPDATED" /\ "payload" \in DOMAIN m)
              => m.payload = JsonObj(alerts[FindIndex(alerts, m.payload.id)])
         /\ m.type = "ALERT_RESOLVED"
              => m.payload.resolvedAlert = JsonObj(history[Len(history)])
         /\ m.type = "USER_LOCATION_UPDATED"
              => m.payload.activeUsers = JsonMap(activeUsers)
         /\ m.type \in {"DISASTER_ACTIVATED", "DISASTER_DEACTIVATED"}
              => m.payload = JsonObj(disasterMode)
         /\ m.type = "TRAFFIC_SIM_UPDATED" => m.payload = trafficSimulation

\* C14: a step handles at most one frame, whole, mutation and broadcast; a step
\* that handles none leaves the store alone; and the frames a step sends show the
\* store as it is right after that step's own mutation, the activeUsers map of
\* USER_LOCATION_UPDATED included.
C14_HandlerAtomic ==
  [][/\ handled' \in {handled, handled + 1}
     /\ ~MsgStep => UNCHANGED store
     /\ FramesShowStore'
    ]_vars

\* C14 witness: a second user's LOCATION_UPDATE has just been broadcast and the
\* frame carries both users.
C14_Witness ==
  \E c \in Conn :
    /\ SentType(c) = "USER_LOCATION_UPDATED"
    /\ DOMAIN sent[c][1].payload.activeUsers = {"U1", "U2"}

\* C15: a step sends frames only to connections that are open; a connection that
\* is closing or closed is sent nothing, and when a frame that changes the store is
\* handled while such a connection is around, the handling does not throw and every
\* open connection is sent the broadcast.
C15_OnlyOpen ==
  [][/\ \A c \in Conn : sent'[c] # <<>> => readyState'[c] = "OPEN"
     /\ (MsgStep /\ store' # store)
          => /\ ~lastMsg'.threw
             /\ \A c \in Conn : readyState[c] = "OPEN" => sent'[c] # <<>>
    ]_vars

\* C15 witness: connection 1 is closing, connection 2 has just been sent a
\* broadcast, and connection 1 was sent nothing.
C15_Witness ==
  /\ readyState[1] = "CLOSING"
  /\ readyState[2] = "OPEN"
  /\ SentType(2) = "ALERT_CREATED"
  /\ sent[1] = <<>>

\* C16: when the handling of a frame changes the store, so that a broadcast is due,
\* every open connection whose own send does not fail is sent the broadcast, also
\* when the send to another connection fails.
C16_FailureIsolated ==
  [][(MsgStep /\ store' # store)
       => \A c \in Conn :
            (readyState[c] = "OPEN" /\ ~SendFails(c)) => sent'[c] # <<>>
    ]_vars

\* the frame is not JSON, or is of a handled type and lacks its payload or a
\* required field of it
Malformed(msg) ==
  \/ msg.type = "<SyntaxError>"
  \/ /\ msg.type \in {"NEW_ALERT", "ACCEPT_ALERT", "RESOLVE_ALERT", "REJECT_ALERT",
                       "LOCATION_UPDATE", "ACTIVATE_DISASTER"}
     /\ ~HasPayload(msg)
  \/ /\ HasPayload(msg)
     /\ \/ msg.type = "NEW_ALERT" /\ "location" \notin DOMAIN msg.payload
        \/ msg.type = "LOCATION_UPDATE"
             /\ {"userId", "location"} \ DOMAIN msg.payload # {}
        \/ msg.type = "ACTIVATE_DISASTER" /\ "type" \notin DOMAIN msg.payload

\* C17: a frame that is not valid JSON, or a message of a handled type that lacks
\* its payload or a required field, is dropped: the store is unchanged, nothing is
\* sent, and no connection changes its state.
C17_MalformedDropped ==
  [][(MsgStep /\ Malformed(lastMsg'.msg))
       => (UNCHANGED store /\ NothingSent' /\ UNCHANGED readyState)
    ]_vars

\* C18: when the handling of a frame throws, at whatever point, the store is left
\* exactly as it was before that frame.
C18_ErrorLeavesStore ==
  [][(MsgStep /\ lastMsg'.threw) => UNCHANGED store]_vars

\* what C19 says of every field but resolved: the step appends one alert to the
\* active list, with the server's id and timestamp and accepted = false, keeps the
\* alerts that were there, and leaves history alone
AppendsOne ==
  /\ Len(alerts') = Len(alerts) + 1
  /\ SubSeq(alerts', 1, Len(alerts)) = alerts
  /\ alerts'[Len(alerts')].id = DateNowString(now)
  /\ alerts'[Len(alerts')].timestamp = ToISOString(now)
  /\ alerts'[Len(alerts')].accepted = FALSE
  /\ history' = history

C20_AcceptOne ==
  [][(IdStep({"ACCEPT_ALERT"}) /\ lastMsg'.msg.payload.id \in Ids(alerts))
       => \E i \in DOMAIN alerts :
            /\ alerts[i].id = lastMsg'.msg.payload.id
            /\ DOMAIN alerts' = DOMAIN alerts
            /\ alerts'[i] = Spread(alerts[i], [accepted |-> TRUE,
                                                acceptedAt |-> ToISOString(now)])
            /\ \A j \in DOMAIN alerts \ {i} : alerts'[j] = alerts[j]
            /\ history' = history
            /\ \A c \in Conn :
                 readyState[c] = "OPEN"
                   => sent'[c] = <<[type |-> "ALERT_UPDATED",
                                    payload |-> JsonObj(alerts'[i])]>>
    ]_vars

\* the resolutionType an inbound type archives with
ResolutionOf(type) == IF type = "RESOLVE_ALERT" THEN "Resolved" ELSE "Rejected"

\* C21: a RESOLVE_ALERT (REJECT_ALERT) for an id in the active list, of an alert
\* pending or accepted, takes exactly one alert with that id out of the active
\* list, keeps the others in order, appends it to history with resolved = true,
\* resolvedAt set and resolutionType Resolved (Rejected) and every other field as it
\* was, and sends every open connection ALERT_RESOLVED whose payload is the id and
\* the new history entry.
C21_ArchiveOne ==
  [][(IdStep({"RESOLVE_ALERT", "REJECT_ALERT"})
        /\ lastMsg'.msg.payload.id \in Ids(alerts))
       => \E i \in DOMAIN alerts :
            LET e == history'[Len(history')] IN
            /\ alerts[i].id = lastMsg'.msg.payload.id
            /\ Len(alerts') = Len(alerts) - 1
            /\ \A j \in DOMAIN alerts' :
                 alerts'[j] = IF j < i THEN alerts[j] ELSE alerts[j + 1]
            /\ Len(history') = Len(history) + 1
            /\ SubSeq(history', 1, Len(history)) = history
            /\ DOMAIN e = DOMAIN alerts[i] \cup {"resolved", "resolvedAt", "resolutionType"}
            /\ e.resolved = TRUE
            /\ e.resolvedAt = ToISOString(now)
            /\ e.resolutionType = ResolutionOf(lastMsg'.msg.type)
            /\ \A k \in DOMAIN alerts[i] : e[k] = alerts[i][k]
            /\ \A c \in Conn :
                 readyState[c] = "OPEN"
                   => sent'[c] = <<[type |-> "ALERT_RESOLVED",
                                    payload |-> [alertId |-> alerts[i].id,
                                                 resolvedAlert |-> JsonObj(e)]]>>
    ]_vars

\* C21 witness: an accepted alert has just been rejected and sits last in history,
\* while another alert is still active.
C21_Witness ==
  /\ lastMsg.msg.type = "REJECT_ALERT"
  /\ alerts # <<>>
  /\ history # <<>>
  /\ history[Len(history)].accepted
  /\ history[Len(history)].resolutionType = "Rejected"
  /\ \E c \in Conn : SentType(c) = "ALERT_RESOLVED"

\* C22: activeUsers is changed by LOCATION_UPDATE only, and a LOCATION_UPDATE
\* leaves one entry under the userId of its payload, carrying the location of that
\* payload, and every other entry as it was; so after any sequence of updates there
\* is one entry per user and it has the location of the user's latest update.
C22_LatestLocation ==
  [][IF MsgStep /\ lastMsg'.msg.type = "LOCATION_UPDATE" /\ HasPayload(lastMsg'.msg)
     THEN LET p == lastMsg'.msg.payload
              u == ToKey(Get(p, "userId"))
          IN /\ DOMAIN activeUsers' = DOMAIN activeUsers \cup {u}
             /\ activeUsers'[u].location = Get(p, "location")
             /\ \A k \in DOMAIN activeUsers \ {u} : activeUsers'[k] = activeUsers[k]
     ELSE activeUsers' = activeUsers
    ]_vars

\* C22 witness: two users have entries, and user U1, who has moved, is at the
\* location of the move.
C22_Witness ==
  /\ DOMAIN activeUsers = {"U1", "U2"}
  /\ activeUsers["U1"].location = "L5"
  /\ lastMsg.msg.type = "LOCATION_UPDATE"
  /\ lastMsg.msg.payload.location = "L5"
  /\ handled = 3

\* C23: a LOCATION_UPDATE sets location and fullAddress, as its payload has them,
\* on every active alert whose userId is the payload's and changes no other alert,
\* and sends every open connection USER_LOCATION_UPDATED with the payload's userId,
\* location and fullAddress and the activeUsers map as it is after the upsert.
C23_LocationPatch ==
  [][(MsgStep /\ lastMsg'.msg.type = "LOCATION_UPDATE" /\ HasPayload(lastMsg'.msg))
       => LET p == lastMsg'.msg.payload IN
          /\ DOMAIN alerts' = DOMAIN alerts
          /\ \A i \in DOMAIN alerts :
               alerts'[i] =
                 IF alerts[i].userId = Get(p, "userId")
                 THEN Spread(alerts[i], [location |-> Get(p, "location"),
                                         fullAddress |-> Get(p, "fullAddress")])
                 ELSE alerts[i]
          /\ \A c \in Conn :
               readyState[c] = "OPEN"
                 => /\ Len(sent'[c]) = 1
                    /\ sent'[c][1].type = "USER_LOCATION_UPDATED"
                    /\ Get(sent'[c][1].payload, "userId") = Get(p, "userId")
                    /\ Get(sent'[c][1].payload, "location") = Get(p, "location")
                    /\ Get(sent'[c][1].payload, "fullAddress") = Get(p, "fullAddress")
                    /\ sent'[c][1].payload.activeUsers = JsonMap(activeUsers')
    ]_vars

\* C23 witness: of two active alerts of two users, the first user's alert has
\* just been moved to that user's new location and the other alert is where it was.
C23_Witness ==
  /\ Len(alerts) = 2
  /\ alerts[1].userId = "U1"
  /\ alerts[1].location = "L3"
  /\ alerts[2].userId = "U2"
  /\ alerts[2].location = "L2"
  /\ \E c \in Conn : SentType(c) = "USER_LOCATION_UPDATED"

\* C24: an ACTIVATE_DISASTER sets the disaster flags to active with the type of
\* its payload and the time of handling, and sends every open connection
\* DISASTER_ACTIVATED with the new flags; a DEACTIVATE_DISASTER, whatever the flags
\* were, sets them to inactive with type and timestamp null, and sends every open
\* connection DISASTER_DEACTIVATED with the new flags.
C24_DisasterFlags ==
  [][/\ (MsgStep /\ lastMsg'.msg.type = "ACTIVATE_DISASTER" /\ HasPayload(lastMsg'.msg))
          => /\ disasterMode' = [active |-> TRUE,
                                  type |-> Get(lastMsg'.msg.payload, "type"),
                                  timestamp |-> ToISOString(now)]
             /\ \A c \in Conn :
                  readyState[c] = "OPEN"
                    => sent'[c] = <<[type |-> "DISASTER_ACTIVATED",
                                     payload |-> JsonObj(disasterMode')]>>
     /\ (MsgStep /\ lastMsg'.msg.type = "DEACTIVATE_DISASTER")
          => /\ disasterMode' = [active |-> FALSE, type |-> Null, timestamp |-> Null]
             /\ \A c \in Conn :
                  readyState[c] = "OPEN"
                    => sent'[c] = <<[type |-> "DISASTER_DEACTIVATED",
                                     payload |-> JsonObj(disasterMode')]>>
    ]_vars

\* C24 witness: a disaster of type Flood is active at the second millisecond and
\* DISASTER_ACTIVATED has just been sent to two connections.
C24_Witness ==
  /\ disasterMode = [active |-> TRUE, type |-> "Flood", timestamp |-> "T2"]
  /\ SentType(1) = "DISASTER_ACTIVATED"
  /\ sent[2] = sent[1]

\* C25: a SET_MAP_VIEW_MODE frame makes its mode the map view mode of the
\* process: every open connection is sent MAP_VIEW_MODE_UPDATED carrying that mode.
C25_MapViewBroadcast ==
  [][(MsgStep /\ lastMsg'.msg.type = "SET_MAP_VIEW_MODE")
       => \A c \in Conn :
            readyState[c] = "OPEN"
              => sent'[c] = <<[type |-> "MAP_VIEW_MODE_UPDATED",
                               payload |-> lastMsg'.msg.payload]>>]_vars

\* C26: while some connection does not read what is sent to it, a frame that is
\* handled is sent to all open connections alike and reaches the client of every
\* open connection that reads, and the next inbound frame of any open connection
\* can be handled.
C26_SlowIsolated ==
  [][/\ (MsgStep /\ stalled # {})
          => \A c \in Conn :
               readyState[c] = "OPEN"
                 => /\ \A d \in Conn : readyState[d] = "OPEN" => sent'[d] = sent'[c]
                    /\ (c \notin stalled /\ sent'[c] # <<>>)
                          => ui'[c] = OnMessage(ui[c], sent'[c][1])
     /\ stalled # {}
          => \A c \in Conn :
               (readyState[c] = "OPEN" /\ handled < budget)
                 => \A p \in NewAlertPayloads :
                      ENABLED NewAlert(c, [type |-> "NEW_ALERT", payload |-> p])
    ]_vars

\* C26 witness: connection 1 has stopped reading and its client has no alert;
\* connection 2 has just been sent the second ALERT_CREATED, as connection 1 has,
\* and its client holds both alerts.
C26_Witness ==
  /\ stalled = {1}
  /\ readyState = <<"OPEN", "OPEN">>
  /\ handled = 2
  /\ SentType(2) = "ALERT_CREATED"
  /\ sent[1] = sent[2]
  /\ ui[1].alerts = <<>>
  /\ Len(ui[2].alerts) = 2

\* C27: the status of every alert of the store, active or archived, is Critical,
\* Medium or Low.
C27_StatusValid ==
  /\ \A i \in DOMAIN alerts : alerts[i].status \in {"Critical", "Medium", "Low"}
  /\ \A i \in DOMAIN history : history[i].status \in {"Critical", "Medium", "Low"}

\* C28: an UPDATE_TRAFFIC_SIM gives every flag its payload names the value of the
\* payload and leaves every other flag as it was, and every open connection is sent
\* TRAFFIC_SIM_UPDATED carrying all the flags as they now are.
C28_TrafficMerge ==
  [][(MsgStep /\ lastMsg'.msg.type = "UPDATE_TRAFFIC_SIM" /\ HasPayload(lastMsg'.msg))
       => LET p == lastMsg'.msg.payload IN
          /\ DOMAIN trafficSimulation' = DOMAIN trafficSimulation \cup DOMAIN p
          /\ \A k \in DOMAIN trafficSimulation' :
               trafficSimulation'[k] = IF k \in DOMAIN p THEN p[k] ELSE trafficSimulation[k]
          /\ \A c \in Conn :
               readyState[c] = "OPEN"
                 => /\ sent'[c] = <<[type |-> "TRAFFIC_SIM_UPDATED",
                                     payload |-> trafficSimulation']>>
                    /\ DOMAIN sent'[c][1].payload = DOMAIN InitTrafficSimulation
    ]_vars

\* C28 witness: two partial updates have been merged: the simulation is active, the
\* heat map and the reroutes are off, the ambulance is shown as it was at the
\* start, and TRAFFIC_SIM_UPDATED has just been sent.
C28_Witness ==
  /\ trafficSimulation = [InitTrafficSimulation EXCEPT !.active = TRUE,
                                                        !.showHeatmap = FALSE,
                                                        !.showReroutes = FALSE]
  /\ \E c \in Conn : SentType(c) = "TRAFFIC_SIM_UPDATED"

\* C29: a step that handles no inbound frame (a connection is accepted and sent
\* its snapshot, a connection starts to close or has closed, time passes) leaves
\* the active list, the history, the active users and the mode flags as they were.
C29_OnlyHandlersWrite ==
  [][~MsgStep => UNCHANGED <<alerts, history, activeUsers, disasterMode,
                             trafficSimulation>>]_vars

\* C29 witness: the first connection has closed and the second has just been sent
\* its snapshot, with an active alert, an archived alert and a disaster declared
\* or a user located still in the store.
C29_Witness ==
  /\ readyState = <<"CLOSED", "OPEN">>
  /\ SentType(2) = "INIT_DATA"
  /\ handled = 3
  /\ alerts # <<>>
  /\ (disasterMode.active \/ DOMAIN activeUsers # {})

\* C30: no step removes a userId from activeUsers: the userIds it holds after a
\* step include all those it held before.
C30_UsersOnlyGrow ==
  [][DOMAIN activeUsers \subseteq DOMAIN activeUsers']_vars

\* C30 witness: user U1 is still in activeUsers although the only alert of U1 has
\* been archived, no alert is active and the first connection has closed.
C30_Witness ==
  /\ "U1" \in DOMAIN activeUsers
  /\ alerts = <<>>
  /\ \E i \in DOMAIN history : history[i].userId = "U1"
  /\ readyState[1] = "CLOSED"

\* C31: every step leaves each entry of the history where it was and as it was,
\* so that the history only grows at its end; and a LOCATION_UPDATE leaves the
\* history as a whole unchanged.
C31_HistoryAppendOnly ==
  [][/\ Len(history') >= Len(history)
     /\ \A i \in DOMAIN history : history'[i] = history[i]
     /\ (MsgStep /\ lastMsg'.msg.type = "LOCATION_UPDATE") => history' = history
    ]_vars

\* C31 witness: user U1, whose alert raised at L1 has been archived, has just
\* reported location L3: the archived alert still says L1.
C31_Witness ==
  /\ lastMsg.msg.type = "LOCATION_UPDATE"
  /\ lastMsg.msg.payload.userId = "U1"
  /\ "U1" \in DOMAIN activeUsers
  /\ activeUsers["U1"].location = "L3"
  /\ \E i \in DOMAIN history :
       history[i].userId = "U1" /\ history[i].location = "L1"

\* C32: the number of active alerts plus the number of history entries is the
\* number of NEW_ALERT frames handled without error: it is zero at the start, a
\* NEW_ALERT handled without error adds one to it and no other step changes it.
C32_Conservation ==
  [][Len(alerts') + Len(history')
       = Len(alerts) + Len(history)
           + (IF MsgStep /\ lastMsg'.msg.type = "NEW_ALERT" /\ ~lastMsg'.threw
              THEN 1 ELSE 0)]_vars

\* C33: an ACCEPT_ALERT naming an alert that is already accepted leaves that alert
\* as it was, acceptedAt included.
C33_AcceptIdempotent ==
  [][IdStep({"ACCEPT_ALERT"})
       => \A i \in DOMAIN alerts :
            (alerts[i].id = Get(lastMsg'.msg.payload, "id") /\ alerts[i].accepted)
              => (i \in DOMAIN alerts' /\ alerts'[i] = alerts[i])]_vars

\* C34: the disaster flags are inactive exactly when type and timestamp are both
\* null, and when they are active neither type nor timestamp is null.
C34_FlagsConsistent ==
  /\ (disasterMode.active = FALSE)
       <=> (disasterMode.type = Null /\ disasterMode.timestamp = Null)
  /\ disasterMode.active => (disasterMode.type # Null /\ disasterMode.timestamp # Null)

\* C35: a NEW_ALERT, ACCEPT_ALERT, RESOLVE_ALERT, REJECT_ALERT or LOCATION_UPDATE
\* leaves the disaster flags and the traffic-simulation flags as they were, and an
\* ACTIVATE_DISASTER, DEACTIVATE_DISASTER or UPDATE_TRAFFIC_SIM leaves the active
\* list, the history and the active users as they were.
C35_Independent ==
  [][/\ (MsgStep /\ lastMsg'.msg.type \in {"NEW_ALERT", "ACCEPT_ALERT", "RESOLVE_ALERT",
                                           "REJECT_ALERT", "LOCATION_UPDATE"})
          => UNCHANGED <<disasterMode, trafficSimulation>>
     /\ (MsgStep /\ lastMsg'.msg.type \in {"ACTIVATE_DISASTER", "DEACTIVATE_DISASTER",
                                           "UPDATE_TRAFFIC_SIM"})
          => UNCHANGED <<alerts, history, activeUsers>>
    ]_vars

\* C35 witness: a disaster has just been declared while a Medium alert is active
\* and the location of a user is known.
C35_Witness ==
  /\ lastMsg.msg.type = "ACTIVATE_DISASTER"
  /\ disasterMode.active
  /\ \E i \in DOMAIN alerts : alerts[i].status = "Medium"
  /\ DOMAIN activeUsers # {}

\* C36: handling a frame of a type the server has no branch for changes nothing in
\* the store, sends nothing to any connection, raises no error and leaves every
\* connection in the state it was in, the sender's open.
C36_UnknownIgnored ==
  [][(MsgStep /\ lastMsg'.msg.type \in {"UPDATE_ALERT_VIDEO", "SET_MAP_VIEW_MODE"})
       => /\ UNCHANGED <<alerts, history, activeUsers, disasterMode, trafficSimulation>>
          /\ NothingSent'
          /\ ~lastMsg'.threw
          /\ readyState' = readyState
          /\ readyState'[lastMsg'.from] = "OPEN"]_vars

\* C36 witness: an UPDATE_ALERT_VIDEO naming an active alert has just been handled:
\* the alert has no video, nothing was sent and the sender is open.
C36_Witness ==
  /\ lastMsg.msg.type = "UPDATE_ALERT_VIDEO"
  /\ \E i \in DOMAIN alerts :
       alerts[i].id = lastMsg.msg.payload.id /\ alerts[i].videoData = Null
  /\ NothingSent
  /\ readyState[lastMsg.from] = "OPEN"
  /\ readyState[2] = "OPEN"

====
